---- MODULE Spec2Model ----
(***************************************************************************)
(* The module registry facade of src/share/vm/classfile/modules.cpp:       *)
(* define_module, add_module_exports, add_reads_module, add_module_package,*)
(* can_read_module and is_exported_to_module, over the per-loader module   *)
(* and package tables.                                                     *)
(*                                                                         *)
(* Every table mutation of define_module and of add_module_package happens *)
(* inside one MutexLocker(Module_lock) region, so a facade call is one     *)
(* action.  A call that throws or only answers a question leaves the state *)
(* as it was; what it throws or returns is an operator of the state it ran *)
(* in (define_module_error, can_read_module_result, ...).                  *)
(***************************************************************************)
EXTENDS Integers, Sequences, FiniteSets, Bags, TLC

---------------------------------------------------------------------------
(* Bounds of the model.                                                    *)

\* Package entries over all loaders.
MaxPackages == 2
\* Stored relations over all entries: qualified export targets, read
\* edges and unqualified-export flags.
MaxRelations == 2

---------------------------------------------------------------------------
(* Values.                                                                 *)

\* A name is a sequence of one-character strings.  A NULL jstring is the
\* one-element sequence below, which is no sequence of characters.
NullString == <<"NULL">>

M1 == <<"m", "1">>
M2 == <<"m", "2">>
java_base == <<"j", "a", "v", "a", ".", "b", "a", "s", "e">>
BadModuleName == <<"m", ";">>
P == <<"p">>
Q == <<"q">>
BadPackageName == <<"p", "[">>
\* A byte that makes a string illegal (modified) UTF-8.
BadByte == "0xC0"

\* Class loaders.  The NULL jobject is the boot loader.
NullLoader == "NULL"
L1 == "L1"
\* An object that is no java.lang.ClassLoader.
NotALoader == "Object"
Loaders == {NullLoader, L1}
\* A delegating loader of reflection (sun.reflect.DelegatingClassLoader),
\* whose parent L1 is its non-reflection loader.
DelegatingLoader == "W"
\* The objects that are NULL or a java.lang.ClassLoader; each has its
\* ClassLoaderData.
ClassLoaders == Loaders \cup {DelegatingLoader}

\* A java.lang.reflect.Module object is written <<loader, name>>, the two
\* fields it is created with.  NullModule is the NULL jobject and the NULL
\* ModuleEntry*; StaleModule is a Module object that no table holds.
Module_create(h_loader, h_name) == <<h_loader, h_name>>
NullModule == <<>>
StaleModule == <<L1, <<"s">>>>

\* jobjectArray arguments of define_module: a NULL array, or its elements.
Array(elems) == [null |-> FALSE, elems |-> elems]
NullArray == [null |-> TRUE, elems |-> <<>>]

\* The define_module calls of the model: three modules over two loaders
\* with each list of packages, and calls with one bad argument.
DefineInputs ==
    ( {<<M1, L1>>, <<M2, L1>>, <<M1, NullLoader>>} \X
      {NullArray, Array(<<>>), Array(<<P>>), Array(<<Q>>), Array(<<P, Q>>)} )
    \cup ( {<<NullString, L1>>, <<java_base, L1>>, <<java_base, NullLoader>>,
            <<BadModuleName, L1>>, <<<<BadByte>>, L1>>, <<<<>>, L1>>,
            <<M1, NotALoader>>} \X {Array(<<P>>)} )
    \cup ( {<<M1, L1>>, <<M2, L1>>} \X
           {Array(<<P, P>>), Array(<<BadPackageName>>), Array(<<P, NullString>>)} )

PackageInputs == {NullString, P, Q, BadPackageName}

\* The -XX:+TraceModules and -XX:+TracePackages flags: a call reads the flag
\* when it gets to its trace line.
FlagInputs == BOOLEAN

---------------------------------------------------------------------------
(* Name checks.                                                            *)

Symbol_max_length == 65535

is_legal_utf8(name) == \A i \in 1..Len(name) : name[i] # BadByte

LegalModule == "LegalModule"
LegalClass == "LegalClass"

\* The characters the unqualified-name grammar refuses.  Module names are
\* dotted (define_module compares a verified name with "java.base").
verify_unqualified_name(name, type) ==
    /\ Len(name) > 0
    /\ \A i \in 1..Len(name) :
          /\ name[i] \notin {";", "["}
          /\ type = LegalClass => name[i] # "."
          /\ type = LegalModule => name[i] \notin {":", "@"}

verify_module_name(module_name) ==
    IF module_name = NullString THEN FALSE
    ELSE /\ Len(module_name) <= Symbol_max_length
         /\ is_legal_utf8(module_name)
         /\ verify_unqualified_name(module_name, LegalModule)

verify_package_name(package_name) ==
    IF package_name = NullString THEN FALSE
    ELSE /\ Len(package_name) <= Symbol_max_length
         /\ is_legal_utf8(package_name)
         /\ verify_unqualified_name(package_name, LegalClass)

---------------------------------------------------------------------------
(* State.                                                                  *)

\* The VM runs.
Running == "running"

\* The threads that call the facade, and no thread.
Threads == {"T1", "T2"}
NoThread == "none"

\* What a call has come to: nothing yet, a pending
\* IllegalArgumentException, a normal return of a void or jobject function,
\* or the jboolean it returns.
NoRet == ""
Thrown == "IllegalArgumentException"
Returned == "returns"
JNI_TRUE == "true"
JNI_FALSE == "false"

\* A thread outside the facade.
Idle == [pc |-> "idle", call |-> <<>>, ret |-> NoRet, paths |-> <<>>]

VARIABLES
    mtable,          \* loader -> its ModuleEntryTable: a bag of ModuleEntry
    ptable,          \* loader -> its PackageEntryTable: a bag of PackageEntry
    boot_list,       \* the paths add_to_boot_loader_list has appended
    crashed,         \* Running, or the call in which the VM died on an illegal access
    granted_exports, \* history: <<from, package, to>>, from # to, of the
                     \* add_module_exports calls that returned normally
    granted_reads,   \* history: <<from, to>>, from # to, of the
                     \* add_reads_module calls that returned normally
    ingested,        \* history: <<loader, package>> of the packages that
                     \* set_unqual_exported has marked
    Module_lock,     \* the thread that holds Module_lock, or NoThread
    system_loader_lock, \* the thread that holds the system loader's lock
    thread           \* thread -> where it is in the call it makes

registry == <<mtable, ptable>>
history == <<granted_exports, granted_reads, ingested>>
threads == <<Module_lock, system_loader_lock, thread>>
vars == <<mtable, ptable, boot_list, crashed, granted_exports, granted_reads, ingested,
          Module_lock, system_loader_lock, thread>>

\* A ModuleEntry: its name symbol, its java.lang.reflect.Module object, the
\* loader it was created for and its read set.  A ModuleEntry* is written
\* as the Module object of the entry.
ModuleEntry(name, module, loader) ==
    [name |-> name, module |-> module, loader |-> loader, reads |-> {}]

\* A PackageEntry: its name symbol, the ModuleEntry* of its module, its
\* qualified export targets and its unqualified-export flag.  A
\* PackageEntry* is written as the entry; NullPackageEntry is the NULL one.
PackageEntry(name, module_entry) ==
    [name |-> name, module |-> module_entry, exports |-> {}, unqual |-> FALSE]
NullPackageEntry == PackageEntry(NullString, NullModule)

One(e) == SetToBag({e})

AllModuleEntries == UNION { BagToSet(mtable[l]) : l \in ClassLoaders }
AllPackageEntries == UNION { BagToSet(ptable[l]) : l \in ClassLoaders }

RECURSIVE SumOver(_, _)
SumOver(f, S) ==
    IF S = {} THEN 0
    ELSE LET x == CHOOSE y \in S : TRUE
         IN  f[x] + SumOver(f, S \ {x})

NumPackages ==
    SumOver([l \in ClassLoaders |-> BagCardinality(ptable[l])], ClassLoaders)

NumRelations ==
    SumOver([e \in AllPackageEntries |->
                Cardinality(e.exports) + (IF e.unqual THEN 1 ELSE 0)],
            AllPackageEntries)
    + SumOver([e \in AllModuleEntries |-> Cardinality(e.reads)], AllModuleEntries)

\* The Module objects a caller can hold: those define_module has returned,
\* the NULL jobject and a Module object that was never registered.
Defined == { e.module : e \in AllModuleEntries }

\* The <<from_module, package, to_module>> arguments of the model: the
\* defined modules with the legal package names, and calls with one bad
\* argument.
ExportInputs ==
    (Defined \X {P, Q} \X (Defined \cup {NullModule}))
    \cup ({NullModule, StaleModule} \X {P} \X {NullModule})
    \cup (Defined \X {NullString, BadPackageName} \X {NullModule})
    \cup (Defined \X {P} \X {StaleModule})

\* The <<module, module>> arguments of the model, likewise.
ReadInputs ==
    (Defined \X (Defined \cup {NullModule}))
    \cup ({NullModule, StaleModule} \X Defined)
    \cup (Defined \X {StaleModule})

\* The <<module, package>> arguments of the model, likewise.
PackageCallInputs ==
    (Defined \X PackageInputs) \cup ({NullModule, StaleModule} \X {P})

---------------------------------------------------------------------------
(* Loaders and table lookups.                                              *)

\* java_lang_ClassLoader::non_reflection_class_loader: the parent of a
\* delegating loader, the loader itself otherwise.
non_reflection_class_loader(loader) ==
    IF loader = DelegatingLoader THEN L1 ELSE loader

\* ClassLoaderData::class_loader_data_or_null: the data of the loader
\* itself, which every loader of the model has.
class_loader_data_or_null(loader) == loader

\* register_loader creates the loader's data on first use; the tables of a
\* loader without modules or packages are empty.
get_module_entry_table(h_loader) == mtable[non_reflection_class_loader(h_loader)]

\* A faulty variant of the getter below: one package table, the boot
\* loader's, for every loader.
get_package_entry_table_boot(h_loader) == ptable[NullLoader]

get_package_entry_table(h_loader) == ptable[non_reflection_class_loader(h_loader)]

\* ModuleEntryTable::lookup_only(Symbol*): the ModuleEntry* named so.
module_lookup_only(table, name) ==
    IF \E e \in BagToSet(table) : e.name = name
    THEN (CHOOSE e \in BagToSet(table) : e.name = name).module
    ELSE NullModule

\* ModuleEntryTable::lookup_only(oop): the ModuleEntry* of this Module object.
module_lookup_only_oop(table, module) ==
    IF \E e \in BagToSet(table) : e.module = module
    THEN (CHOOSE e \in BagToSet(table) : e.module = module).module
    ELSE NullModule

\* PackageEntryTable::lookup_only: the PackageEntry* named so.
package_lookup_only(table, name) ==
    IF \E e \in BagToSet(table) : e.name = name
    THEN CHOOSE e \in BagToSet(table) : e.name = name
    ELSE NullPackageEntry

\* java_lang_reflect_Module::loader: the loader field of the Module object.
Module_loader(module) == module[1]

\* The ModuleEntry* of a Module object, NullModule when no table holds it.
get_module_entry(module) ==
    module_lookup_only_oop(get_module_entry_table(Module_loader(module)), module)

\* Dereference of a non-NULL ModuleEntry*.
Entry(module_entry) == CHOOSE e \in AllModuleEntries : e.module = module_entry

\* The package's entry in the table of module_entry->loader().
get_package_entry(module_entry, package) ==
    IF package = NullString THEN NullPackageEntry
    ELSE package_lookup_only(ptable[Entry(module_entry).loader], package)

\* ModuleEntryTable::locked_create_entry_or_null: the table with the new
\* entry, or the table as it was when the name is already in it.
module_locked_create_entry_or_null(table, module, name, loader) ==
    IF module_lookup_only(table, name) # NullModule THEN table
    ELSE table (+) One(ModuleEntry(name, module, loader))

\* PackageEntryTable::locked_create_entry_or_null, likewise.
package_locked_create_entry_or_null(table, name, module_entry) ==
    IF package_lookup_only(table, name) # NullPackageEntry THEN table
    ELSE table (+) One(PackageEntry(name, module_entry))

---------------------------------------------------------------------------
(* define_module.                                                          *)

NoError == ""

Range(s) == { s[i] : i \in 1..Len(s) }

\* The loop over the packages array: the first error, or the list of
\* package symbols.
RECURSIVE define_module_pkg_list(_, _, _)
define_module_pkg_list(elems, x, pkg_list) ==
    IF x > Len(elems) THEN [err |-> NoError, pkg_list |-> pkg_list]
    ELSE IF elems[x] = NullString
         THEN [err |-> "Bad package name for module", pkg_list |-> <<>>]
    ELSE IF ~verify_package_name(elems[x])
         THEN [err |-> "Invalid package name", pkg_list |-> <<>>]
    \* append_if_missing() returns FALSE if entry already exists.
    ELSE IF elems[x] \in Range(pkg_list)
         THEN [err |-> "Duplicate package name", pkg_list |-> <<>>]
    ELSE define_module_pkg_list(elems, x + 1, Append(pkg_list, elems[x]))

\* A faulty variant of the checks below: the reserved name is not tested.
define_module_arguments_unreserved(name, loader, packages) ==
    IF name = NullString THEN "Null module name"
    ELSE IF ~verify_module_name(name) THEN "Invalid module name"
    ELSE LET num_packages == IF packages.null THEN 0 ELSE Len(packages.elems)
             scan == define_module_pkg_list(SubSeq(packages.elems, 1, num_packages),
                                            1, <<>>)
         IN  IF scan.err # NoError THEN scan.err
             ELSE IF loader # NullLoader /\ loader \notin ClassLoaders
                  THEN "Class loader is not a subclass of java.lang.ClassLoader"
             ELSE NoError

\* The checks made before Module_lock is taken: what they throw.
define_module_arguments(name, loader, packages) ==
    IF name = NullString THEN "Null module name"
    ELSE IF ~verify_module_name(name) THEN "Invalid module name"
    ELSE IF name = java_base THEN "Module java.base is already defined"
    ELSE LET num_packages == IF packages.null THEN 0 ELSE Len(packages.elems)
             scan == define_module_pkg_list(SubSeq(packages.elems, 1, num_packages),
                                            1, <<>>)
         IN  IF scan.err # NoError THEN scan.err
             ELSE IF loader # NullLoader /\ loader \notin ClassLoaders
                  THEN "Class loader is not a subclass of java.lang.ClassLoader"
             ELSE NoError

\* A faulty variant of the check below: the module table is not looked at.
define_module_check_packages_no_tie_break(package_table, module_table, module_symbol, pkg_list) ==
    IF \E x \in 1..Len(pkg_list) :
          package_lookup_only(package_table, pkg_list[x]) # NullPackageEntry
    THEN "Package already exists for class loader"
    ELSE NoError

\* A faulty variant of the check below: the package table is not looked at.
define_module_check_packages_skipped(package_table, module_table, module_symbol, pkg_list) ==
    NoError

\* Check that none of the packages exist in the class loader's package table.
define_module_check_packages(package_table, module_table, module_symbol, pkg_list) ==
    IF \E x \in 1..Len(pkg_list) :
          package_lookup_only(package_table, pkg_list[x]) # NullPackageEntry
    THEN IF module_lookup_only(module_table, module_symbol) # NullModule
         THEN "Module is already defined"
         ELSE "Package already exists for class loader"
    ELSE NoError

\* Add the packages.
RECURSIVE define_module_add_packages(_, _, _, _)
define_module_add_packages(package_table, pkg_list, y, module_entry) ==
    IF y > Len(pkg_list) THEN package_table
    ELSE define_module_add_packages(
             package_locked_create_entry_or_null(package_table, pkg_list[y], module_entry),
             pkg_list, y + 1, module_entry)

\* A faulty variant of the creation below: the entry is given the boot
\* loader whatever the loader of the call.
define_module_create_entry_boot(module_table, jlrM, module_symbol, h_loader) ==
    module_locked_create_entry_or_null(module_table, jlrM, module_symbol, NullLoader)

\* Create the entry for this module in the class loader's module entry table.
define_module_create_entry(module_table, jlrM, module_symbol, h_loader) ==
    module_locked_create_entry_or_null(module_table, jlrM, module_symbol,
                                       class_loader_data_or_null(h_loader))

\* A faulty variant of the test below: a NULL entry goes unnoticed.
define_module_created_unchecked(module_table, created) == NoError

\* The test of the created entry: a NULL entry is a module defined already.
define_module_created(module_table, created) ==
    IF created = module_table THEN "Module is already defined" ELSE NoError

\* A faulty variant of the region below: the module entry is created before
\* the packages are checked, and stays when the check throws.
define_module_locked_create_first(module_symbol, h_loader, pkg_list, jlrM) ==
    LET module_table == get_module_entry_table(h_loader)
        package_table == get_package_entry_table(h_loader)
        created == define_module_create_entry(module_table, jlrM, module_symbol, h_loader)
        null == define_module_created(module_table, created)
        dup == IF Len(pkg_list) > 0
               THEN define_module_check_packages(package_table, module_table,
                                                 module_symbol, pkg_list)
               ELSE NoError
    IN  IF null # NoError
        THEN [err |-> null, modules |-> module_table, packages |-> package_table]
        ELSE IF dup # NoError
        THEN [err |-> dup, modules |-> created, packages |-> package_table]
        ELSE [err |-> NoError, modules |-> created,
              packages |-> define_module_add_packages(package_table, pkg_list, 1, jlrM)]

\* The region under Module_lock: what it throws and the two tables of the
\* loader as it leaves them.
define_module_locked(module_symbol, h_loader, pkg_list, jlrM) ==
    LET module_table == get_module_entry_table(h_loader)
        package_table == get_package_entry_table(h_loader)
        dup == IF Len(pkg_list) > 0
               THEN define_module_check_packages(package_table, module_table,
                                                 module_symbol, pkg_list)
               ELSE NoError
        created == define_module_create_entry(module_table, jlrM, module_symbol, h_loader)
        null == define_module_created(module_table, created)
    IN  IF dup # NoError
        THEN [err |-> dup, modules |-> module_table, packages |-> package_table]
        ELSE IF null # NoError
        THEN [err |-> null, modules |-> created, packages |-> package_table]
        ELSE [err |-> NoError, modules |-> created,
              packages |-> define_module_add_packages(package_table, pkg_list, 1, jlrM)]

\* The symbols of a packages array that passed the checks.
define_module_symbols(packages) ==
    define_module_pkg_list(packages.elems, 1, <<>>).pkg_list

\* What the call throws in the current state, NoError when it returns.
define_module_error(name, loader, packages) ==
    LET err == define_module_arguments(name, loader, packages)
    IN  IF err # NoError THEN err
        ELSE define_module_locked(name, loader, define_module_symbols(packages),
                                  Module_create(loader, name)).err

\* -Xoverride is not given: Arguments::override_dir() is NULL.
Arguments_override_dir == NullString

\* The paths add_to_boot_loader_list appends for a boot module: its
\* -Xoverride directory when the option is given and stat() finds the
\* directory, and its exploded-image directory when there is no
\* bootmodules.jimage and stat() finds the directory.
add_to_boot_loader_list(module_name, prefix_stat, path_stat) ==
    LET prefix_path == Arguments_override_dir # NullString /\ prefix_stat
        path == path_stat
    IN  (IF prefix_path THEN <<<<"override", module_name>>>> ELSE <<>>)
        \o (IF path THEN <<<<"modules", module_name>>>> ELSE <<>>)

\* assert(h_loader() == non_reflection_class_loader(h_loader())): a debug
\* build stops the VM on a delegating loader, a product build has no
\* assert and goes on.
define_module_assert_fails(DebugBuild, loader) ==
    DebugBuild /\ loader # non_reflection_class_loader(loader)

define_module(name, loader, packages) ==
    /\ crashed = Running
    /\ LET err == define_module_arguments(name, loader, packages)
           pkg_list == define_module_symbols(packages)
           jlrM == Module_create(loader, name)
       IN  IF err # NoError
           THEN UNCHANGED <<registry, boot_list, crashed>>
           ELSE \/ /\ \E DebugBuild \in BOOLEAN :
                         define_module_assert_fails(DebugBuild, loader)
                   /\ crashed' = "define_module"
                   /\ UNCHANGED <<registry, boot_list>>
                \/ LET r == define_module_locked(name, loader, pkg_list, jlrM)
                       table == non_reflection_class_loader(loader)
                   IN  /\ r.err = NoError =>
                             NumPackages + Len(pkg_list) <= MaxPackages
                       /\ mtable' = [mtable EXCEPT ![table] = r.modules]
                       /\ ptable' = [ptable EXCEPT ![table] = r.packages]
                       /\ IF r.err = NoError /\ loader = NullLoader
                          THEN \E prefix_stat \in BOOLEAN, path_stat \in BOOLEAN :
                                  boot_list' = boot_list \o
                                      add_to_boot_loader_list(name, prefix_stat, path_stat)
                          ELSE UNCHANGED boot_list
                       /\ UNCHANGED crashed
    /\ UNCHANGED <<history, threads>>

---------------------------------------------------------------------------
(* Entry operations.                                                       *)

PackageEntry_is_unqual_exported(package_entry) == package_entry.unqual

PackageEntry_is_qexported_to(package_entry, m) == m \in package_entry.exports

\* The target joins the qualified exports; NullModule stands for the
\* unnamed module and leaves the unqualified flag alone.
PackageEntry_set_exported(package_entry, m) ==
    [package_entry EXCEPT !.exports = @ \cup {m}]

ModuleEntry_add_read(module_entry, m) ==
    [module_entry EXCEPT !.reads = @ \cup {m}]

ModuleEntry_can_read(module_entry, m) == m \in module_entry.reads

\* A table with one entry rewritten in place.
Replace(table, old, new) == (table (-) One(old)) (+) One(new)

---------------------------------------------------------------------------
(* add_module_exports.                                                     *)

\* A faulty variant of the checks below: the owner of the found package is
\* not compared with from_module.
add_module_exports_arguments_any_owner(from_module, package, to_module) ==
    IF package = NullString THEN "package is null"
    ELSE IF from_module = NullModule THEN "from_module is null"
    ELSE IF get_module_entry(from_module) = NullModule THEN "from_module cannot be found"
    ELSE IF to_module # NullModule /\ get_module_entry(to_module) = NullModule
         THEN "to_module is invalid"
    ELSE IF ~verify_package_name(package) THEN "Bad package for module"
    ELSE IF get_package_entry(get_module_entry(from_module), package) = NullPackageEntry
         THEN "Package not found in from_module"
    ELSE NoError

\* Argument checks and lookups, up to the found package entry: what they
\* throw.
add_module_exports_arguments(from_module, package, to_module) ==
    IF package = NullString THEN "package is null"
    ELSE IF from_module = NullModule THEN "from_module is null"
    ELSE IF get_module_entry(from_module) = NullModule THEN "from_module cannot be found"
    ELSE IF to_module # NullModule /\ get_module_entry(to_module) = NullModule
         THEN "to_module is invalid"
    ELSE IF ~verify_package_name(package) THEN "Bad package for module"
    ELSE LET from_module_entry == get_module_entry(from_module)
             package_entry == get_package_entry(from_module_entry, package)
         IN  IF package_entry = NullPackageEntry THEN "Package not found in from_module"
             ELSE IF package_entry.module # from_module_entry
                  THEN "Package found in module, not in from_module"
             ELSE NoError

\* A faulty variant of the check below: the unqualified flag is not tested.
add_module_exports_qualified_unchecked(package_entry, to_module_entry) == NoError

\* If this is a qualified export, make sure the entry has not already been
\* exported unqualifically.
add_module_exports_qualified(package_entry, to_module_entry) ==
    IF to_module_entry # NullModule /\ PackageEntry_is_unqual_exported(package_entry)
    THEN "Bad qualifed export, package is already unqualifically exported"
    ELSE NoError

\* A faulty variant of the update below: the modules are not compared.
add_module_exports_set_always(package_entry, from_module_entry, to_module_entry) ==
    PackageEntry_set_exported(package_entry, to_module_entry)

\* A faulty variant of the update below: a NULL target is taken for an
\* export to everyone.
add_module_exports_set_wildcard(package_entry, from_module_entry, to_module_entry) ==
    IF to_module_entry = NullModule THEN [package_entry EXCEPT !.unqual = TRUE]
    ELSE IF from_module_entry # to_module_entry
    THEN PackageEntry_set_exported(package_entry, to_module_entry)
    ELSE package_entry

\* Do nothing if modules are the same.
add_module_exports_set(package_entry, from_module_entry, to_module_entry) ==
    IF from_module_entry # to_module_entry
    THEN PackageEntry_set_exported(package_entry, to_module_entry)
    ELSE package_entry

\* The ModuleEntry* of a to_module argument: NULL is the unnamed module.
to_entry(to_module) ==
    IF to_module = NullModule THEN NullModule ELSE get_module_entry(to_module)

\* What the call throws in the current state, NoError when it returns.
add_module_exports_error(from_module, package, to_module) ==
    LET err == add_module_exports_arguments(from_module, package, to_module)
    IN  IF err # NoError THEN err
        ELSE add_module_exports_qualified(
                 get_package_entry(get_module_entry(from_module), package),
                 to_entry(to_module))

\* The trace line formats the target's name with %s, and a NULL pointer for
\* the unnamed module: the C library prints "(null)" or faults.
add_module_exports_trace_faults(TraceModules, to_module_entry) ==
    TraceModules /\ to_module_entry = NullModule

add_module_exports(from_module, package, to_module) ==
    /\ crashed = Running
    /\ LET err == add_module_exports_arguments(from_module, package, to_module)
       IN  IF err # NoError
           THEN UNCHANGED <<registry, crashed, granted_exports>>
           ELSE LET from_module_entry == get_module_entry(from_module)
                    to_module_entry == to_entry(to_module)
                    l == Entry(from_module_entry).loader
                    package_entry == get_package_entry(from_module_entry, package)
                    qual == add_module_exports_qualified(package_entry, to_module_entry)
                    after == add_module_exports_set(package_entry, from_module_entry,
                                                    to_module_entry)
                IN  \/ /\ \E TraceModules \in FlagInputs :
                              add_module_exports_trace_faults(TraceModules, to_module_entry)
                       /\ crashed' = "add_module_exports"
                       /\ UNCHANGED <<registry, granted_exports>>
                    \/ /\ qual # NoError
                       /\ UNCHANGED <<registry, crashed, granted_exports>>
                    \/ /\ qual = NoError
                       /\ after # package_entry => NumRelations < MaxRelations
                       /\ ptable' = [ptable EXCEPT ![l] = Replace(@, package_entry, after)]
                       /\ granted_exports' = granted_exports \cup
                              (IF from_module_entry = to_module_entry THEN {}
                               ELSE {<<from_module_entry, package, to_module_entry>>})
                       /\ UNCHANGED <<mtable, crashed>>
    /\ UNCHANGED <<boot_list, granted_reads, ingested, threads>>

---------------------------------------------------------------------------
(* add_reads_module.                                                       *)

\* What the call throws in the current state, NoError when it returns.
add_reads_module_error(from_module, to_module) ==
    IF from_module = NullModule THEN "from_module is null"
    ELSE IF to_module = NullModule THEN "to_module is null"
    ELSE IF get_module_entry(from_module) = NullModule THEN "from_module is invalid"
    ELSE IF get_module_entry(to_module) = NullModule THEN "to_module is invalid"
    ELSE NoError

\* A faulty variant of the update below: the test of the modules inverted.
add_reads_module_add_inverted(from_module_entry, to_module_entry) ==
    IF from_module_entry = to_module_entry
    THEN ModuleEntry_add_read(Entry(from_module_entry), to_module_entry)
    ELSE Entry(from_module_entry)

\* if modules are the same, no need to add the read.
add_reads_module_add(from_module_entry, to_module_entry) ==
    IF from_module_entry # to_module_entry
    THEN ModuleEntry_add_read(Entry(from_module_entry), to_module_entry)
    ELSE Entry(from_module_entry)

add_reads_module(from_module, to_module) ==
    /\ crashed = Running
    /\ IF add_reads_module_error(from_module, to_module) # NoError
       THEN UNCHANGED <<registry, granted_reads>>
       ELSE LET from_module_entry == get_module_entry(from_module)
                to_module_entry == get_module_entry(to_module)
                l == non_reflection_class_loader(Entry(from_module_entry).loader)
                after == add_reads_module_add(from_module_entry, to_module_entry)
            IN  /\ after # Entry(from_module_entry) => NumRelations < MaxRelations
                /\ mtable' = [mtable EXCEPT
                                 ![l] = Replace(@, Entry(from_module_entry), after)]
                /\ granted_reads' = granted_reads \cup
                       (IF from_module_entry = to_module_entry THEN {}
                        ELSE {<<from_module_entry, to_module_entry>>})
                /\ UNCHANGED ptable
    /\ UNCHANGED <<boot_list, crashed, granted_exports, ingested, threads>>

---------------------------------------------------------------------------
(* can_read_module.                                                        *)

\* What the call throws in the current state, NoError when it returns.
can_read_module_error(asking_module, target_module) ==
    IF asking_module = NullModule THEN "asking_module is null"
    ELSE IF get_module_entry(asking_module) = NullModule THEN "asking_module is invalid"
    ELSE IF target_module = NullModule THEN NoError
    ELSE IF get_module_entry(target_module) = NullModule THEN "target_module is invalid"
    ELSE NoError

\* A faulty variant of the result below: the read set alone decides for a
\* named target.
can_read_module_result_reads_only(asking_module, target_module) ==
    IF target_module = NullModule THEN TRUE
    ELSE ModuleEntry_can_read(Entry(get_module_entry(asking_module)),
                              get_module_entry(target_module))

\* What the call returns in the current state when it does not throw.
can_read_module_result(asking_module, target_module) ==
    \* Unnamed module is always readable.
    IF target_module = NullModule THEN TRUE
    ELSE LET asking_module_entry == get_module_entry(asking_module)
             target_module_entry == get_module_entry(target_module)
         IN  IF asking_module_entry = target_module_entry THEN TRUE
             ELSE ModuleEntry_can_read(Entry(asking_module_entry), target_module_entry)

can_read_module(asking_module, target_module) ==
    /\ crashed = Running
    /\ UNCHANGED vars

---------------------------------------------------------------------------
(* is_exported_to_module.                                                  *)

\* What the call throws in the current state, NoError when it does not.
is_exported_to_module_error(from_module, package, to_module) ==
    IF package = NullString THEN "package is null"
    ELSE IF from_module = NullModule THEN "from_module is null"
    ELSE IF get_module_entry(from_module) = NullModule THEN "from_module is invalid"
    ELSE IF to_module # NullModule /\ get_module_entry(to_module) = NullModule
         THEN "to_module is invalid"
    ELSE IF ~verify_package_name(package) THEN "Bad exported package name"
    ELSE LET from_module_entry == get_module_entry(from_module)
             package_entry == get_package_entry(from_module_entry, package)
         IN  IF package_entry = NullPackageEntry THEN "Package not found in from_module"
             ELSE IF package_entry.module # from_module_entry
                  THEN "Package found in module, not in from_module"
             ELSE NoError

\* A faulty variant of the return statement below: the qualified exports
\* are not looked at.
is_exported_to_module_value_unqualified(package_entry, from_module_entry, to_module, to_module_entry) ==
    \/ PackageEntry_is_unqual_exported(package_entry)
    \/ from_module_entry = to_module_entry

\* The return statement.
is_exported_to_module_value(package_entry, from_module_entry, to_module, to_module_entry) ==
    \/ PackageEntry_is_unqual_exported(package_entry)
    \/ from_module_entry = to_module_entry
    \/ (to_module # NullModule /\ PackageEntry_is_qexported_to(package_entry, to_module_entry))

\* What the call returns in the current state when it gets to its return
\* statement.
is_exported_to_module_result(from_module, package, to_module) ==
    is_exported_to_module_value(
        get_package_entry(get_module_entry(from_module), package),
        get_module_entry(from_module), to_module, to_entry(to_module))

\* The trace line reads to_module_entry->name() whatever the target is: a
\* read through the NULL ModuleEntry* for the unnamed module.
is_exported_to_module_trace_faults(TracePackages, to_module_entry) ==
    TracePackages /\ to_module_entry = NullModule

is_exported_to_module(from_module, package, to_module) ==
    /\ crashed = Running
    /\ IF is_exported_to_module_error(from_module, package, to_module) # NoError
       THEN UNCHANGED crashed
       ELSE \* The VM dies on the read, or the read finds mapped memory and
            \* the call goes on to its return statement.
            \/ /\ \E TracePackages \in FlagInputs :
                      is_exported_to_module_trace_faults(TracePackages,
                                                         to_entry(to_module))
               /\ crashed' = "is_exported_to_module"
            \/ UNCHANGED crashed
    /\ UNCHANGED <<registry, boot_list, history, threads>>

---------------------------------------------------------------------------
(* add_module_package.                                                     *)

add_module_package_arguments(module, package) ==
    IF module = NullModule THEN "module is null"
    ELSE IF package = NullString THEN "package is null"
    ELSE IF get_module_entry(module) = NullModule THEN "module is invalid"
    ELSE IF ~verify_package_name(package) THEN "Invalid package name"
    ELSE NoError

\* The region under Module_lock: the package table as it leaves it and
\* whether the package was there.
add_module_package_locked(package_table, pkg_symbol, module_entry) ==
    IF package_lookup_only(package_table, pkg_symbol) = NullPackageEntry
    THEN [pkg_exists |-> FALSE,
          packages |-> package_locked_create_entry_or_null(package_table, pkg_symbol,
                                                           module_entry)]
    ELSE [pkg_exists |-> TRUE, packages |-> package_table]

\* What the call throws in the current state, NoError when it returns.
add_module_package_error(module, package) ==
    LET err == add_module_package_arguments(module, package)
    IN  IF err # NoError THEN err
        ELSE LET module_entry == get_module_entry(module)
             IN  IF add_module_package_locked(ptable[Entry(module_entry).loader],
                                              package, module_entry).pkg_exists
                 THEN "Package already exists for class loader"
                 ELSE NoError

add_module_package(module, package) ==
    /\ crashed = Running
    /\ IF add_module_package_arguments(module, package) # NoError
       THEN UNCHANGED registry
       ELSE LET module_entry == get_module_entry(module)
                l == Entry(module_entry).loader
                r == add_module_package_locked(ptable[l], package, module_entry)
            IN  /\ ~r.pkg_exists => NumPackages < MaxPackages
                /\ ptable' = [ptable EXCEPT ![l] = r.packages]
                /\ UNCHANGED mtable
    /\ UNCHANGED <<boot_list, crashed, history, threads>>

---------------------------------------------------------------------------
(* The module-descriptor ingestion path marks a package as exported to     *)
(* everyone; the facade only reads the flag.                               *)

set_unqual_exported(l, package_entry) ==
    /\ crashed = Running
    /\ BagIn(package_entry, ptable[l])
    /\ ~package_entry.unqual
    /\ NumRelations < MaxRelations
    /\ ptable' = [ptable EXCEPT
                     ![l] = Replace(@, package_entry, [package_entry EXCEPT !.unqual = TRUE])]
    /\ ingested' = ingested \cup {<<l, package_entry.name>>}
    /\ UNCHANGED <<mtable, boot_list, crashed, granted_exports, granted_reads, threads>>

---------------------------------------------------------------------------
(* Specification.                                                          *)

Init ==
    /\ mtable = [l \in ClassLoaders |-> EmptyBag]
    /\ ptable = [l \in ClassLoaders |-> EmptyBag]
    /\ boot_list = <<>>
    /\ crashed = Running
    /\ granted_exports = {}
    /\ granted_reads = {}
    /\ ingested = {}
    /\ Module_lock = NoThread
    /\ system_loader_lock = NoThread
    /\ thread = [t \in Threads |-> Idle]

Next ==
    \/ \E d \in DefineInputs : define_module(d[1][1], d[1][2], d[2])
    \/ \E a \in ExportInputs : add_module_exports(a[1], a[2], a[3])
    \/ \E a \in ReadInputs : add_reads_module(a[1], a[2])
    \/ \E a \in PackageCallInputs : add_module_package(a[1], a[2])
    \/ \E a \in ReadInputs : can_read_module(a[1], a[2])
    \/ \E a \in ExportInputs : is_exported_to_module(a[1], a[2], a[3])
    \/ \E l \in Loaders : \E package_entry \in BagToSet(ptable[l]) :
          set_unqual_exported(l, package_entry)

Spec == Init /\ [][Next]_vars

---------------------------------------------------------------------------
(* Properties.                                                             *)

\* The entries of a table are pairwise distinct in the field.
UniqueNames(table) ==
    /\ \A e \in BagToSet(table) : CopiesIn(e, table) = 1
    /\ \A e1, e2 \in BagToSet(table) : e1.name = e2.name => e1 = e2

\* The legal package names an array of define_module lists.
Listed(packages) == { x \in Range(packages.elems) : verify_package_name(x) }

\* The define_module call names a package that its loader's table holds.
DefineCollides(d) ==
    /\ d[1][2] \in Loaders
    /\ \E x \in Listed(d[2]) :
          package_lookup_only(ptable[d[1][2]], x) # NullPackageEntry

\* The add_module_package call names a package that the table of the
\* module's loader holds.
AddPackageCollides(a) ==
    /\ a[1] \in Defined
    /\ verify_package_name(a[2])
    /\ package_lookup_only(ptable[Entry(a[1]).loader], a[2]) # NullPackageEntry

C1_Unique == \A l \in Loaders : UniqueNames(ptable[l])

C1_CollisionFails ==
    /\ \A d \in DefineInputs :
          DefineCollides(d) => define_module_error(d[1][1], d[1][2], d[2]) # NoError
    /\ \A a \in PackageCallInputs :
          AddPackageCollides(a) => add_module_package_error(a[1], a[2]) # NoError

C1_CollisionKeepsTables ==
    registry' # registry =>
        /\ \A d \in DefineInputs :
              DefineCollides(d) => ~define_module(d[1][1], d[1][2], d[2])
        /\ \A a \in PackageCallInputs :
              AddPackageCollides(a) => ~add_module_package(a[1], a[2])

\* C1: no package table ever holds two entries of one name, and a
\* define_module or add_module_package call that names a package its
\* loader's table holds already throws and changes no table.
C1_PackageNamesUnique ==
    /\ [](C1_Unique /\ C1_CollisionFails)
    /\ [][C1_CollisionKeepsTables]_vars

\* A loader holds two packages, and calls of both kinds collide with them.
C1_Witness ==
    /\ \E l \in Loaders : BagCardinality(ptable[l]) = 2
    /\ \E d \in DefineInputs :
          /\ DefineCollides(d)
          /\ define_module_arguments(d[1][1], d[1][2], d[2]) = NoError
    /\ \E a \in PackageCallInputs : AddPackageCollides(a)

\* The define_module call names a module that its loader's table holds.
DefineRedefines(d) ==
    /\ d[1][2] \in Loaders
    /\ module_lookup_only(mtable[d[1][2]], d[1][1]) # NullModule

C3_FailureKeepsTables ==
    registry' # registry =>
        \A d \in DefineInputs :
            define_module_error(d[1][1], d[1][2], d[2]) # NoError
                => ~define_module(d[1][1], d[1][2], d[2])

\* C3: a define_module call that throws, for whatever reason, leaves the
\* module table and the package table as they were.
C3_DefineIsAtomic == [][C3_FailureKeepsTables]_vars

\* Calls that throw for each reason are at hand in one state.
C3_Witness ==
    \A reason \in {"Null module name", "Invalid module name",
                   "Module java.base is already defined",
                   "Bad package name for module", "Invalid package name",
                   "Duplicate package name",
                   "Class loader is not a subclass of java.lang.ClassLoader",
                   "Package already exists for class loader",
                   "Module is already defined"} :
        \E d \in DefineInputs : define_module_error(d[1][1], d[1][2], d[2]) = reason

\* C4: the module of every package entry of a loader's package table is an
\* entry of the same loader's module table, whose loader is that loader.
C4_PackageModuleInLoader ==
    \A l \in Loaders : \A package_entry \in BagToSet(ptable[l]) :
        \E module_entry \in BagToSet(mtable[l]) :
            /\ module_entry.module = package_entry.module
            /\ module_entry.loader = l

\* Both loaders hold a package, of modules of one name.
C4_Witness ==
    \E e1 \in BagToSet(ptable[L1]), e2 \in BagToSet(ptable[NullLoader]) :
        e1.module[2] = e2.module[2]

\* C5: once add_module_exports(from, p, T) has returned for a named module
\* T, is_exported_to_module(from, p, T) returns true in every later state,
\* whether T is another module or from itself, and whatever the trace flag.
C5_ExportsStay ==
    /\ \A g \in granted_exports :
          g[3] # NullModule =>
              /\ is_exported_to_module_error(g[1], g[2], g[3]) = NoError
              /\ is_exported_to_module_result(g[1], g[2], g[3])
              /\ \A TracePackages \in FlagInputs :
                    ~is_exported_to_module_trace_faults(TracePackages, to_entry(g[3]))
    /\ \A package_entry \in AllPackageEntries :
          LET from == package_entry.module
          IN  /\ is_exported_to_module_error(from, package_entry.name, from) = NoError
              /\ is_exported_to_module_result(from, package_entry.name, from)

\* An export to a named module was granted, and other calls came after it.
C5_Witness ==
    /\ \E g \in granted_exports : g[3] # NullModule
    /\ granted_reads # {}
    /\ NumPackages = MaxPackages

\* The package of an is_exported_to_module call that gets to its trace line
\* is exported to everyone.
UnqualifiedQuery(a) ==
    /\ is_exported_to_module_error(a[1], a[2], a[3]) = NoError
    /\ PackageEntry_is_unqual_exported(get_package_entry(get_module_entry(a[1]), a[2]))

C6_Returns ==
    \A a \in ExportInputs :
        UnqualifiedQuery(a) /\ is_exported_to_module(a[1], a[2], a[3])
            => crashed' = Running

\* C6: when the unqualified flag of package P of module from_M is set,
\* is_exported_to_module(from_M, P, X) returns true for every defined module
\* X and for the unnamed module, whatever P.exports holds.
C6_UnqualifiedDominates ==
    /\ [](\A a \in ExportInputs :
             UnqualifiedQuery(a) => is_exported_to_module_result(a[1], a[2], a[3]))
    /\ [][crashed' # crashed => C6_Returns]_vars

\* C6 for named targets, for which the trace line reads a real entry.
C6_UnqualifiedDominatesNamed ==
    \A a \in ExportInputs, TracePackages \in FlagInputs :
        UnqualifiedQuery(a) /\ a[3] # NullModule =>
            /\ is_exported_to_module_result(a[1], a[2], a[3])
            /\ ~is_exported_to_module_trace_faults(TracePackages, to_entry(a[3]))

\* C7: for distinct modules m1 and m2, can_read_module(m1, m2) returns true
\* exactly when add_reads_module(m1, m2) has returned before: the opposite
\* grant, and grants to and by other modules, do not count.
C7_ReadsDirectional ==
    \A m1, m2 \in Defined :
        m1 # m2 =>
            /\ can_read_module_error(m1, m2) = NoError
            /\ can_read_module_result(m1, m2) <=> <<m1, m2>> \in granted_reads

\* One direction was granted between two modules and the other was not.
C7_Witness ==
    \E m1, m2 \in Defined :
        /\ <<m1, m2>> \in granted_reads /\ <<m2, m1>> \notin granted_reads
        /\ can_read_module_result(m1, m2) /\ ~can_read_module_result(m2, m1)

\* C8: every defined module reads itself and the unnamed module, whether
\* reads were granted or not.
C8_ReadsSelfAndUnnamed ==
    \A M \in Defined :
        /\ can_read_module_error(M, M) = NoError
        /\ can_read_module_result(M, M)
        /\ can_read_module_error(M, NullModule) = NoError
        /\ can_read_module_result(M, NullModule)

\* Two modules are defined and no read was granted.
C8_Witness == Cardinality(Defined) = 2 /\ granted_reads = {}

\* The named modules other than its own that a package is exported to by
\* what was granted and ingested.
Exported(l, package_entry, to) ==
    \/ <<l, package_entry.name>> \in ingested
    \/ <<package_entry.module, package_entry.name, to>> \in granted_exports

NamedExports(package_entry) == package_entry.exports \ {NullModule}

C10_Rejected ==
    \A package_entry \in AllPackageEntries :
        PackageEntry_is_unqual_exported(package_entry) =>
            \A to \in Defined :
                add_module_exports_error(package_entry.module, package_entry.name, to)
                    = "Bad qualifed export, package is already unqualifically exported"

C10_ExportsKept ==
    \A l \in Loaders : \A package_entry \in BagToSet(ptable[l]) :
        PackageEntry_is_unqual_exported(package_entry) =>
            \E after \in BagToSet(ptable'[l]) :
                /\ after.name = package_entry.name
                /\ PackageEntry_is_unqual_exported(after)
                /\ NamedExports(after) = NamedExports(package_entry)

\* C10: add_module_exports to any named module, the package's own module
\* included, throws when the package is exported to everyone, and the
\* unqualified flag and the named modules of the qualified exports of such
\* a package stay as they are in every step.
C10_NoQualifiedAfterUnqualified ==
    /\ []C10_Rejected
    /\ [][ptable' # ptable => C10_ExportsKept]_vars

\* A package with a qualified export to a named module is exported to
\* everyone, and two modules are there to export it to.
C10_Witness ==
    \E package_entry \in AllPackageEntries :
        /\ PackageEntry_is_unqual_exported(package_entry)
        /\ NamedExports(package_entry) # {}
        /\ Cardinality(Defined) >= 2

\* No module entry is among its own reads and no package entry has its own
\* module among its exports.
C11_NeverStored ==
    /\ \A module_entry \in AllModuleEntries :
          module_entry.module \notin module_entry.reads
    /\ \A package_entry \in AllPackageEntries :
          package_entry.module \notin package_entry.exports

\* add_reads_module(M, M) returns and leaves the entry of M as it is.
C11_SelfReadIsNoOp ==
    \A M \in Defined :
        /\ add_reads_module_error(M, M) = NoError
        /\ add_reads_module_add(M, M) = Entry(M)

\* C11 as the claim has it: self-read and self-export are never stored, and
\* add_reads_module(M, M) and add_module_exports(M, p, M) return, for every
\* package p of M, and change no set.
C11_SelfCallsSucceed ==
    /\ C11_NeverStored
    /\ C11_SelfReadIsNoOp
    /\ \A package_entry \in AllPackageEntries :
          LET M == package_entry.module
          IN  /\ add_module_exports_error(M, package_entry.name, M) = NoError
              /\ add_module_exports_set(package_entry, M, M) = package_entry

\* C11, amended: self-read and self-export are never stored;
\* add_reads_module(M, M) returns and changes no set;
\* add_module_exports(M, p, M) returns when p is not exported to everyone
\* and throws when it is, and in both cases changes no set.
C11_SelfCallsStoreNothing ==
    /\ C11_NeverStored
    /\ C11_SelfReadIsNoOp
    /\ \A package_entry \in AllPackageEntries :
          LET M == package_entry.module
          IN  /\ add_module_exports_error(M, package_entry.name, M) = NoError
                    <=> ~PackageEntry_is_unqual_exported(package_entry)
              /\ add_module_exports_set(package_entry, M, M) = package_entry

\* A module with reads is there, and a package exported to everyone, for
\* which the self-export throws.
C11_Witness ==
    /\ \E module_entry \in AllModuleEntries : module_entry.reads # {}
    /\ \E package_entry \in AllPackageEntries :
          /\ PackageEntry_is_unqual_exported(package_entry)
          /\ add_module_exports_error(package_entry.module, package_entry.name,
                                      package_entry.module) # NoError

\* The package of the call is not in the table of from_module's loader, or
\* is there as the package of another module.
NotOwned(a) ==
    /\ a[1] \in Defined
    /\ a[3] \in Defined \cup {NullModule}
    /\ verify_package_name(a[2])
    /\ package_lookup_only(ptable[Entry(a[1]).loader], a[2]).module # a[1]

C12_OwnPackages ==
    \A package_entry \in AllPackageEntries :
        LET M == package_entry.module
        IN  /\ is_exported_to_module_error(M, package_entry.name, M) = NoError
            /\ is_exported_to_module_result(M, package_entry.name, M)
            /\ \A TracePackages \in FlagInputs :
                  ~is_exported_to_module_trace_faults(TracePackages, to_entry(M))

C12_OthersThrow ==
    \A a \in ExportInputs :
        NotOwned(a) =>
            /\ is_exported_to_module_error(a[1], a[2], a[3]) \in
                   {"Package not found in from_module",
                    "Package found in module, not in from_module"}
            /\ add_module_exports_error(a[1], a[2], a[3]) \in
                   {"Package not found in from_module",
                    "Package found in module, not in from_module"}

C12_OthersKeepRegistry ==
    \A a \in ExportInputs :
        NotOwned(a) =>
            /\ ~add_module_exports(a[1], a[2], a[3])
            /\ ~is_exported_to_module(a[1], a[2], a[3])

\* C12: is_exported_to_module(M, p, M) returns true for every package p of
\* M; for a package that M's loader does not have, or has as the package
\* of another module, is_exported_to_module and add_module_exports throw,
\* and no step that changes the registry is such a call.
C12_OwnedOrThrows ==
    /\ [](C12_OwnPackages /\ C12_OthersThrow)
    /\ [][registry' # registry => C12_OthersKeepRegistry]_vars

\* A loader holds packages of two of its modules, so that calls for an
\* absent package and for another module's package are both at hand.
C12_Witness ==
    /\ \E a \in ExportInputs :
          NotOwned(a) /\ get_package_entry(a[1], a[2]) = NullPackageEntry
    /\ \E a \in ExportInputs :
          NotOwned(a) /\ get_package_entry(a[1], a[2]) # NullPackageEntry

C13_Message ==
    \A d \in DefineInputs :
        DefineCollides(d) /\ define_module_arguments(d[1][1], d[1][2], d[2]) = NoError
            => define_module_error(d[1][1], d[1][2], d[2]) =
                   IF DefineRedefines(d) THEN "Module is already defined"
                   ELSE "Package already exists for class loader"

C13_NothingDefined ==
    \A d \in DefineInputs :
        DefineCollides(d) /\ define_module_arguments(d[1][1], d[1][2], d[2]) = NoError
            => ~define_module(d[1][1], d[1][2], d[2])

\* C13: a define_module call one of whose packages is in the loader's
\* package table throws "Module is already defined" when the loader's
\* module table has a module of the name and "Package already exists for
\* class loader" when it has not, and no step that changes the registry is
\* such a call.
C13_TieBreak ==
    /\ []C13_Message
    /\ [][registry' # registry => C13_NothingDefined]_vars

\* Calls for both messages are at hand.
C13_Witness ==
    \E d1, d2 \in DefineInputs :
        /\ DefineCollides(d1) /\ DefineRedefines(d1)
        /\ DefineCollides(d2) /\ ~DefineRedefines(d2)
        /\ define_module_arguments(d1[1][1], d1[1][2], d1[2]) = NoError
        /\ define_module_arguments(d2[1][1], d2[1][2], d2[2]) = NoError

\* The package arrays of define_module calls.
PackageArrays ==
    {NullArray} \cup
    { Array(elems) : elems \in {<<>>, <<P>>, <<Q>>, <<P, Q>>, <<P, P>>,
                                <<BadPackageName>>, <<P, NullString>>} }

\* C14: define_module of "java.base" throws for every loader and every
\* package array, and no module table has a module of that name.
C14_JavaBaseReserved ==
    /\ \A loader \in Loaders \cup {NotALoader} : \A packages \in PackageArrays :
          define_module_error(java_base, loader, packages)
              = "Module java.base is already defined"
    /\ \A module_entry \in AllModuleEntries : module_entry.name # java_base

\* Modules are defined in both loaders, where java.base was tried.
C14_Witness ==
    /\ \A l \in Loaders : mtable[l] # EmptyBag
    /\ verify_module_name(java_base)

---------------------------------------------------------------------------
(* The facade called by several threads.  A step of a thread is one access *)
(* to what the threads share: a lookup in a table, a read of an entry, a   *)
(* lock taken, or the part of a MutexLocker block that follows it.  The    *)
(* checks of a call that read only its arguments belong to its next step.  *)
(* The threads run with tracing off.                                       *)

\* The modules that the calls of the threads name: those of loader L1.
DefinedL1 == { module_entry.module : module_entry \in BagToSet(mtable[L1]) }

ThreadDefineInputs ==
    {<<M1, L1, Array(<<>>)>>, <<M2, L1, Array(<<P>>)>>,
     <<M1, NullLoader, Array(<<Q>>)>>, <<java_base, L1, Array(<<>>)>>}

\* The handles of M1 and M2 in L1, which a thread has once define_module
\* has made the module.
m1 == Module_create(L1, M1)
m2 == Module_create(L1, M2)
Handles(S) == { a \in S : \A i \in 1..Len(a) : a[i] \in DefinedL1 \cup {NullModule, P, Q} }

ThreadPackageInputs == Handles({<<m1, P>>, <<m1, Q>>})
ThreadExportInputs == Handles({<<m1, P, m2>>, <<m1, P, NullModule>>, <<m2, P, m1>>})
ThreadReadInputs == Handles({<<m1, m2>>, <<m1, m1>>})
ThreadCanReadInputs == Handles({<<m1, m2>>, <<m2, m1>>})

\* Thread t is at pc in a call of op.
At(t, op, pc) == thread[t].pc = pc /\ thread[t].call[1] = op

\* Thread t enters a call.
Call(t, call, pc) ==
    /\ thread[t].pc = "idle"
    /\ thread' = [thread EXCEPT ![t] = [Idle EXCEPT !.pc = pc, !.call = call]]

Goto(t, pc) == thread' = [thread EXCEPT ![t].pc = pc]

\* The call of thread t has come to ret and goes on at pc.
Decide(t, ret, pc) == thread' = [thread EXCEPT ![t].pc = pc, ![t].ret = ret]

\* THROW_MSG: the exception is pending and the function returns.
Throw(t) == Decide(t, Thrown, "return")

\* A faulty variant of the MutexLocker below: the block is entered without
\* the lock.
MutexLocker_skipped(t, pc) ==
    /\ Goto(t, pc)
    /\ UNCHANGED Module_lock

\* MutexLocker ml(Module_lock, THREAD): the thread waits for the lock.
MutexLocker(t, pc) ==
    /\ Module_lock = NoThread
    /\ Module_lock' = t
    /\ Goto(t, pc)

\* A faulty variant of the end of the block below: the lock is kept.
MutexLocker_unlock_kept(t) == UNCHANGED Module_lock

\* The end of the block of a MutexLocker, also when an exception leaves it.
MutexLocker_unlock(t) == Module_lock' = NoThread

\* SystemDictionary::register_loader: the ClassLoaderData of the loader,
\* made when the loader has none.  The tables of every loader are there
\* from the start, empty.
register_loader(t, pc) == Goto(t, pc)

\* The function returns to its caller.
return(t) ==
    /\ thread[t].pc = "return"
    /\ thread' = [thread EXCEPT ![t] = Idle]
    /\ UNCHANGED <<registry, boot_list, crashed, history, Module_lock, system_loader_lock>>

---------------------------------------------------------------------------
(* define_module, by steps.                                                *)

\* The call, with the checks of its arguments.
define_module_call(t, name, loader, packages) ==
    /\ define_module_arguments(name, loader, packages) = NoError
          => NumPackages + Len(define_module_symbols(packages)) <= MaxPackages
    /\ Call(t, <<"define_module", name, loader, packages>>,
            IF define_module_arguments(name, loader, packages) = NoError
            THEN "get_module_entry_table" ELSE "throw")
    /\ UNCHANGED <<registry, boot_list, crashed, history, Module_lock, system_loader_lock>>

\* A check of the arguments has failed.
define_module_throw(t) ==
    /\ At(t, "define_module", "throw")
    /\ Throw(t)
    /\ UNCHANGED <<registry, boot_list, crashed, history, Module_lock, system_loader_lock>>

\* ModuleEntryTable* module_table = get_module_entry_table(h_loader).
define_module_get_module_entry_table(t) ==
    /\ At(t, "define_module", "get_module_entry_table")
    /\ register_loader(t, "MutexLocker")
    /\ UNCHANGED <<registry, boot_list, crashed, history, Module_lock, system_loader_lock>>

define_module_MutexLocker(t) ==
    /\ At(t, "define_module", "MutexLocker")
    /\ MutexLocker(t, IF Len(define_module_symbols(thread[t].call[4])) > 0
                      THEN "get_package_entry_table"
                      ELSE "locked_create_entry_or_null")
    /\ UNCHANGED <<registry, boot_list, crashed, history, system_loader_lock>>

\* package_table = get_package_entry_table(h_loader), inside the block.
define_module_get_package_entry_table(t) ==
    /\ At(t, "define_module", "get_package_entry_table")
    /\ register_loader(t, "lookup_only")
    /\ UNCHANGED <<registry, boot_list, crashed, history, Module_lock, system_loader_lock>>

\* Check that none of the packages exist in the class loader's package table.
define_module_lookup_only(t) ==
    /\ At(t, "define_module", "lookup_only")
    /\ LET call == thread[t].call
           err == define_module_check_packages(
                      get_package_entry_table(call[3]), get_module_entry_table(call[3]),
                      call[2], define_module_symbols(call[4]))
       IN  IF err # NoError
           THEN Throw(t) /\ MutexLocker_unlock(t)
           ELSE Goto(t, "locked_create_entry_or_null") /\ UNCHANGED Module_lock
    /\ UNCHANGED <<registry, boot_list, crashed, history, system_loader_lock>>

\* A faulty variant of the end of the block: the boot path is extended
\* inside the block.
define_module_release_late(t, loader) ==
    [lock |-> IF loader = NullLoader THEN t ELSE NoThread,
     pc |-> IF loader = NullLoader THEN "add_to_boot_loader_list" ELSE "return"]

\* The end of the block and what follows it: the boot loader's modules go
\* on to add_to_boot_loader_list.
define_module_release(t, loader) ==
    [lock |-> NoThread,
     pc |-> IF loader = NullLoader THEN "add_to_boot_loader_list" ELSE "return"]

\* Add the module and its packages.
define_module_locked_create_entry_or_null(t) ==
    /\ At(t, "define_module", "locked_create_entry_or_null")
    /\ LET call == thread[t].call
           table == non_reflection_class_loader(call[3])
           jlrM == Module_create(call[3], call[2])
           created == define_module_create_entry(get_module_entry_table(call[3]),
                                                 jlrM, call[2], call[3])
           after == define_module_release(t, call[3])
       IN  IF define_module_created(get_module_entry_table(call[3]), created) # NoError
           THEN /\ Throw(t)
                /\ MutexLocker_unlock(t)
                /\ UNCHANGED registry
           ELSE /\ mtable' = [mtable EXCEPT ![table] = created]
                /\ ptable' = [ptable EXCEPT ![table] =
                                  define_module_add_packages(
                                      @, define_module_symbols(call[4]), 1, jlrM)]
                /\ Decide(t, Returned, after.pc)
                /\ Module_lock' = after.lock
    /\ UNCHANGED <<boot_list, crashed, history, system_loader_lock>>

\* add_to_boot_loader_list up to its lock: the stat() of the two paths.
add_to_boot_loader_list_stat(t) ==
    /\ At(t, "define_module", "add_to_boot_loader_list")
    /\ \E prefix_stat \in BOOLEAN, path_stat \in BOOLEAN :
          LET paths == add_to_boot_loader_list(thread[t].call[2], prefix_stat, path_stat)
          IN  thread' = [thread EXCEPT
                            ![t].paths = paths,
                            ![t].pc = IF paths = <<>> THEN "return" ELSE "ObjectLocker"]
    /\ UNCHANGED <<registry, boot_list, crashed, history, Module_lock, system_loader_lock>>

\* ObjectLocker ol(loader_lock, THREAD).
add_to_boot_loader_list_ObjectLocker(t) ==
    /\ At(t, "define_module", "ObjectLocker")
    /\ system_loader_lock = NoThread
    /\ system_loader_lock' = t
    /\ Goto(t, "add_to_list")
    /\ UNCHANGED <<registry, boot_list, crashed, history, Module_lock>>

\* ClassLoader::add_to_list of the paths found, and the end of the block.
add_to_boot_loader_list_add_to_list(t) ==
    /\ At(t, "define_module", "add_to_list")
    /\ boot_list' = boot_list \o thread[t].paths
    /\ system_loader_lock' = NoThread
    /\ Goto(t, "return")
    /\ UNCHANGED <<registry, crashed, history, Module_lock>>

---------------------------------------------------------------------------
(* add_module_package, by steps.                                           *)

add_module_package_call(t, module, package) ==
    /\ NumPackages < MaxPackages
    /\ Call(t, <<"add_module_package", module, package>>, "get_module_entry")
    /\ UNCHANGED <<registry, boot_list, crashed, history, Module_lock, system_loader_lock>>

\* The checks up to the trace line, with the lookup of the module.
add_module_package_get_module_entry(t) ==
    /\ At(t, "add_module_package", "get_module_entry")
    /\ IF add_module_package_arguments(thread[t].call[2], thread[t].call[3]) # NoError
       THEN Throw(t)
       ELSE register_loader(t, "MutexLocker")
    /\ UNCHANGED <<registry, boot_list, crashed, history, Module_lock, system_loader_lock>>

add_module_package_MutexLocker(t) ==
    /\ At(t, "add_module_package", "MutexLocker")
    /\ MutexLocker(t, "lookup_only")
    /\ UNCHANGED <<registry, boot_list, crashed, history, system_loader_lock>>

\* Check that the package does not exist in the class loader's package
\* table; pkg_exists makes the call throw after the block.
add_module_package_lookup_only(t) ==
    /\ At(t, "add_module_package", "lookup_only")
    /\ LET call == thread[t].call
           package_table == ptable[Entry(get_module_entry(call[2])).loader]
       IN  IF package_lookup_only(package_table, call[3]) # NullPackageEntry
           THEN Throw(t) /\ MutexLocker_unlock(t)
           ELSE Goto(t, "locked_create_entry_or_null") /\ UNCHANGED Module_lock
    /\ UNCHANGED <<registry, boot_list, crashed, history, system_loader_lock>>

add_module_package_locked_create_entry_or_null(t) ==
    /\ At(t, "add_module_package", "locked_create_entry_or_null")
    /\ LET call == thread[t].call
           module_entry == get_module_entry(call[2])
           l == Entry(module_entry).loader
       IN  ptable' = [ptable EXCEPT
                         ![l] = package_locked_create_entry_or_null(@, call[3], module_entry)]
    /\ MutexLocker_unlock(t)
    /\ Decide(t, Returned, "return")
    /\ UNCHANGED <<mtable, boot_list, crashed, history, system_loader_lock>>

---------------------------------------------------------------------------
(* add_module_exports, by steps.                                           *)

add_module_exports_call(t, from_module, package, to_module) ==
    /\ from_module # to_module => NumRelations < MaxRelations
    /\ Call(t, <<"add_module_exports", from_module, package, to_module>>,
            "get_module_entry_from")
    /\ UNCHANGED <<registry, boot_list, crashed, history, Module_lock, system_loader_lock>>

\* The null checks and the lookup of from_module.
add_module_exports_get_module_entry_from(t) ==
    /\ At(t, "add_module_exports", "get_module_entry_from")
    /\ LET call == thread[t].call
       IN  IF \/ call[3] = NullString
              \/ call[2] = NullModule
              \/ get_module_entry(call[2]) = NullModule
           THEN Throw(t)
           ELSE register_loader(t, IF call[4] = NullModule THEN "get_package_entry"
                                   ELSE "get_module_entry_to")
    /\ UNCHANGED <<registry, boot_list, crashed, history, Module_lock, system_loader_lock>>

\* The lookup of a to_module that is not NULL.
add_module_exports_get_module_entry_to(t) ==
    /\ At(t, "add_module_exports", "get_module_entry_to")
    /\ IF get_module_entry(thread[t].call[4]) = NullModule
       THEN Throw(t)
       ELSE register_loader(t, "get_package_entry")
    /\ UNCHANGED <<registry, boot_list, crashed, history, Module_lock, system_loader_lock>>

\* The check of the package name, the lookup of the package and the check
\* of its module.
add_module_exports_get_package_entry(t) ==
    /\ At(t, "add_module_exports", "get_package_entry")
    /\ LET call == thread[t].call
           package_entry == get_package_entry(call[2], call[3])
       IN  IF \/ ~verify_package_name(call[3])
              \/ package_entry = NullPackageEntry
              \/ package_entry.module # call[2]
           THEN Throw(t)
           ELSE Goto(t, "is_unqual_exported")
    /\ UNCHANGED <<registry, boot_list, crashed, history, Module_lock, system_loader_lock>>

\* The check of a qualified export, and the test of the two modules.
add_module_exports_is_unqual_exported(t) ==
    /\ At(t, "add_module_exports", "is_unqual_exported")
    /\ LET call == thread[t].call
           package_entry == get_package_entry(call[2], call[3])
       IN  IF add_module_exports_qualified(package_entry, call[4]) # NoError
           THEN Throw(t)
           ELSE IF call[2] = call[4] THEN Decide(t, Returned, "return")
           ELSE Goto(t, "set_exported")
    /\ UNCHANGED <<registry, boot_list, crashed, history, Module_lock, system_loader_lock>>

\* PackageEntry::set_exported takes Module_lock ...
add_module_exports_set_exported(t) ==
    /\ At(t, "add_module_exports", "set_exported")
    /\ MutexLocker(t, "set_exported_locked")
    /\ UNCHANGED <<registry, boot_list, crashed, history, system_loader_lock>>

\* ... and adds the target to the exports of the entry.
add_module_exports_set_exported_locked(t) ==
    /\ At(t, "add_module_exports", "set_exported_locked")
    /\ LET call == thread[t].call
           package_entry == get_package_entry(call[2], call[3])
           l == Entry(call[2]).loader
       IN  ptable' = [ptable EXCEPT
                         ![l] = Replace(@, package_entry,
                                        add_module_exports_set(package_entry,
                                                               call[2], call[4]))]
    /\ MutexLocker_unlock(t)
    /\ Decide(t, Returned, "return")
    /\ UNCHANGED <<mtable, boot_list, crashed, history, system_loader_lock>>

---------------------------------------------------------------------------
(* add_reads_module, by steps.                                             *)

add_reads_module_call(t, from_module, to_module) ==
    /\ from_module # to_module => NumRelations < MaxRelations
    /\ Call(t, <<"add_reads_module", from_module, to_module>>, "get_module_entry_from")
    /\ UNCHANGED <<registry, boot_list, crashed, history, Module_lock, system_loader_lock>>

\* The null checks and the lookup of from_module.
add_reads_module_get_module_entry_from(t) ==
    /\ At(t, "add_reads_module", "get_module_entry_from")
    /\ LET call == thread[t].call
       IN  IF \/ call[2] = NullModule
              \/ call[3] = NullModule
              \/ get_module_entry(call[2]) = NullModule
           THEN Throw(t)
           ELSE register_loader(t, "get_module_entry_to")
    /\ UNCHANGED <<registry, boot_list, crashed, history, Module_lock, system_loader_lock>>

\* The lookup of to_module, and the test of the two modules.
add_reads_module_get_module_entry_to(t) ==
    /\ At(t, "add_reads_module", "get_module_entry_to")
    /\ LET call == thread[t].call
       IN  IF get_module_entry(call[3]) = NullModule THEN Throw(t)
           ELSE IF call[2] = call[3] THEN Decide(t, Returned, "return")
           ELSE register_loader(t, "add_read")
    /\ UNCHANGED <<registry, boot_list, crashed, history, Module_lock, system_loader_lock>>

\* ModuleEntry::add_read takes Module_lock ...
add_reads_module_add_read(t) ==
    /\ At(t, "add_reads_module", "add_read")
    /\ MutexLocker(t, "add_read_locked")
    /\ UNCHANGED <<registry, boot_list, crashed, history, system_loader_lock>>

\* ... and adds the module to the reads of the entry.
add_reads_module_add_read_locked(t) ==
    /\ At(t, "add_reads_module", "add_read_locked")
    /\ LET call == thread[t].call
           l == non_reflection_class_loader(Entry(call[2]).loader)
       IN  mtable' = [mtable EXCEPT
                         ![l] = Replace(@, Entry(call[2]),
                                        add_reads_module_add(call[2], call[3]))]
    /\ MutexLocker_unlock(t)
    /\ Decide(t, Returned, "return")
    /\ UNCHANGED <<ptable, boot_list, crashed, history, system_loader_lock>>

---------------------------------------------------------------------------
(* can_read_module, by steps.                                              *)

jboolean(b) == IF b THEN JNI_TRUE ELSE JNI_FALSE

can_read_module_call(t, asking_module, target_module) ==
    /\ Call(t, <<"can_read_module", asking_module, target_module>>,
            "get_module_entry_asking")
    /\ UNCHANGED <<registry, boot_list, crashed, history, Module_lock, system_loader_lock>>

\* The null check and the lookup of asking_module; a NULL target is the
\* unnamed module.
can_read_module_get_module_entry_asking(t) ==
    /\ At(t, "can_read_module", "get_module_entry_asking")
    /\ LET call == thread[t].call
       IN  IF call[2] = NullModule \/ get_module_entry(call[2]) = NullModule
           THEN Throw(t)
           ELSE IF call[3] = NullModule THEN Decide(t, JNI_TRUE, "return")
           ELSE register_loader(t, "get_module_entry_target")
    /\ UNCHANGED <<registry, boot_list, crashed, history, Module_lock, system_loader_lock>>

\* The lookup of target_module, and the test of the two modules.
can_read_module_get_module_entry_target(t) ==
    /\ At(t, "can_read_module", "get_module_entry_target")
    /\ LET call == thread[t].call
       IN  IF get_module_entry(call[3]) = NullModule THEN Throw(t)
           ELSE IF call[2] = call[3] THEN Decide(t, JNI_TRUE, "return")
           ELSE register_loader(t, "can_read")
    /\ UNCHANGED <<registry, boot_list, crashed, history, Module_lock, system_loader_lock>>

\* return asking_module_entry->can_read(target_module_entry).
can_read_module_can_read(t) ==
    /\ At(t, "can_read_module", "can_read")
    /\ Decide(t, jboolean(ModuleEntry_can_read(Entry(thread[t].call[2]),
                                               thread[t].call[3])),
              "return")
    /\ UNCHANGED <<registry, boot_list, crashed, history, Module_lock, system_loader_lock>>

---------------------------------------------------------------------------
(* is_exported_to_module, by steps.                                        *)

is_exported_to_module_call(t, from_module, package, to_module) ==
    /\ Call(t, <<"is_exported_to_module", from_module, package, to_module>>,
            "get_module_entry_from")
    /\ UNCHANGED <<registry, boot_list, crashed, history, Module_lock, system_loader_lock>>

is_exported_to_module_get_module_entry_from(t) ==
    /\ At(t, "is_exported_to_module", "get_module_entry_from")
    /\ LET call == thread[t].call
       IN  IF \/ call[3] = NullString
              \/ call[2] = NullModule
              \/ get_module_entry(call[2]) = NullModule
           THEN Throw(t)
           ELSE register_loader(t, IF call[4] = NullModule THEN "get_package_entry"
                                   ELSE "get_module_entry_to")
    /\ UNCHANGED <<registry, boot_list, crashed, history, Module_lock, system_loader_lock>>

is_exported_to_module_get_module_entry_to(t) ==
    /\ At(t, "is_exported_to_module", "get_module_entry_to")
    /\ IF get_module_entry(thread[t].call[4]) = NullModule
       THEN Throw(t)
       ELSE register_loader(t, "get_package_entry")
    /\ UNCHANGED <<registry, boot_list, crashed, history, Module_lock, system_loader_lock>>

is_exported_to_module_get_package_entry(t) ==
    /\ At(t, "is_exported_to_module", "get_package_entry")
    /\ LET call == thread[t].call
           package_entry == get_package_entry(call[2], call[3])
       IN  IF \/ ~verify_package_name(call[3])
              \/ package_entry = NullPackageEntry
              \/ package_entry.module # call[2]
           THEN Throw(t)
           ELSE Goto(t, "is_exported")
    /\ UNCHANGED <<registry, boot_list, crashed, history, Module_lock, system_loader_lock>>

\* The return statement.
is_exported_to_module_return(t) ==
    /\ At(t, "is_exported_to_module", "is_exported")
    /\ LET call == thread[t].call
       IN  Decide(t, jboolean(is_exported_to_module_value(
                                  get_package_entry(call[2], call[3]),
                                  call[2], call[4], to_entry(call[4]))),
                  "return")
    /\ UNCHANGED <<registry, boot_list, crashed, history, Module_lock, system_loader_lock>>

---------------------------------------------------------------------------
(* The threads.                                                            *)

NextThreads ==
    \E t \in Threads :
        \/ \E d \in ThreadDefineInputs : define_module_call(t, d[1], d[2], d[3])
        \/ define_module_throw(t)
        \/ define_module_get_module_entry_table(t)
        \/ define_module_MutexLocker(t)
        \/ define_module_get_package_entry_table(t)
        \/ define_module_lookup_only(t)
        \/ define_module_locked_create_entry_or_null(t)
        \/ add_to_boot_loader_list_stat(t)
        \/ add_to_boot_loader_list_ObjectLocker(t)
        \/ add_to_boot_loader_list_add_to_list(t)
        \/ \E a \in ThreadPackageInputs : add_module_package_call(t, a[1], a[2])
        \/ add_module_package_get_module_entry(t)
        \/ add_module_package_MutexLocker(t)
        \/ add_module_package_lookup_only(t)
        \/ add_module_package_locked_create_entry_or_null(t)
        \/ \E a \in ThreadExportInputs : add_module_exports_call(t, a[1], a[2], a[3])
        \/ add_module_exports_get_module_entry_from(t)
        \/ add_module_exports_get_module_entry_to(t)
        \/ add_module_exports_get_package_entry(t)
        \/ add_module_exports_is_unqual_exported(t)
        \/ add_module_exports_set_exported(t)
        \/ add_module_exports_set_exported_locked(t)
        \/ \E a \in ThreadReadInputs : add_reads_module_call(t, a[1], a[2])
        \/ add_reads_module_get_module_entry_from(t)
        \/ add_reads_module_get_module_entry_to(t)
        \/ add_reads_module_add_read(t)
        \/ add_reads_module_add_read_locked(t)
        \/ \E a \in ThreadCanReadInputs : can_read_module_call(t, a[1], a[2])
        \/ can_read_module_get_module_entry_asking(t)
        \/ can_read_module_get_module_entry_target(t)
        \/ can_read_module_can_read(t)
        \/ \E a \in ThreadExportInputs : is_exported_to_module_call(t, a[1], a[2], a[3])
        \/ is_exported_to_module_get_module_entry_from(t)
        \/ is_exported_to_module_get_module_entry_to(t)
        \/ is_exported_to_module_get_package_entry(t)
        \/ is_exported_to_module_return(t)
        \/ return(t)

SpecThreads == Init /\ [][NextThreads]_vars

---------------------------------------------------------------------------
(* Properties of the threads.                                              *)

\* The threads that take the step.
Movers == { t \in Threads : thread'[t] # thread[t] }

RegisterLoaderPcs ==
    {"get_module_entry_table", "get_package_entry_table", "get_module_entry",
     "get_module_entry_from", "get_module_entry_to", "get_module_entry_asking",
     "get_module_entry_target"}

\* C16: no thread that is about to run register_loader holds Module_lock.
C16_RegisterLoaderOutsideLock ==
    \A t \in Threads : thread[t].pc \in RegisterLoaderPcs => Module_lock # t

\* The steps of add_to_boot_loader_list.
BootPcs == {"add_to_boot_loader_list", "ObjectLocker", "add_to_list"}

C17_InBootCall ==
    \A t \in Threads :
        thread[t].pc \in BootPcs =>
            LET call == thread[t].call
            IN  /\ call[1] = "define_module" /\ call[3] = NullLoader
                /\ thread[t].ret = Returned
                /\ module_lookup_only(mtable[NullLoader], call[2]) # NullModule
                /\ \A x \in Range(define_module_symbols(call[4])) :
                      package_lookup_only(ptable[NullLoader], x).module
                          = Module_create(NullLoader, call[2])
                /\ Module_lock # t

C17_NoLockNesting ==
    \A t \in Threads : system_loader_lock = t => Module_lock # t /\ thread[t].pc \in BootPcs

\* C17: add_to_boot_loader_list runs in define_module calls for the boot
\* loader alone, after the call has made the module and its packages and
\* has left the block of Module_lock, and in no call that throws; the
\* thread that runs its stat() or holds the system loader's lock does not
\* hold Module_lock; the list of boot paths changes in these steps alone.
C17_BootPathAfterLock ==
    /\ [](C17_InBootCall /\ C17_NoLockNesting)
    /\ [][boot_list' # boot_list =>
             \A t \in Movers : thread[t].pc = "add_to_list" /\ system_loader_lock = t]_vars

\* A thread is about to append the path of a boot module with a package,
\* under the system loader's lock, while the other holds Module_lock.
C17_Witness ==
    \E t, u \in Threads :
        /\ thread[t].pc = "add_to_list" /\ system_loader_lock = t
        /\ thread[t].call[4] # Array(<<>>)
        /\ Module_lock = u

\* What a call gives when it runs alone from the current state, as the
\* operators of the sequential functions have it: what it returns and the
\* two tables as it leaves them.
Sequential(call) ==
    LET same == [ret |-> Thrown, mtable |-> mtable, ptable |-> ptable]
    IN  CASE call[1] = "define_module" ->
                 IF define_module_error(call[2], call[3], call[4]) # NoError THEN same
                 ELSE LET r == define_module_locked(call[2], call[3],
                                                    define_module_symbols(call[4]),
                                                    Module_create(call[3], call[2]))
                          table == non_reflection_class_loader(call[3])
                      IN  [ret |-> Returned,
                           mtable |-> [mtable EXCEPT ![table] = r.modules],
                           ptable |-> [ptable EXCEPT ![table] = r.packages]]
          [] call[1] = "add_module_package" ->
                 IF add_module_package_error(call[2], call[3]) # NoError THEN same
                 ELSE LET l == Entry(call[2]).loader
                      IN  [ret |-> Returned, mtable |-> mtable,
                           ptable |-> [ptable EXCEPT
                                          ![l] = add_module_package_locked(
                                                     @, call[3], call[2]).packages]]
          [] call[1] = "add_module_exports" ->
                 IF add_module_exports_error(call[2], call[3], call[4]) # NoError THEN same
                 ELSE LET l == Entry(call[2]).loader
                          package_entry == get_package_entry(call[2], call[3])
                      IN  [ret |-> Returned, mtable |-> mtable,
                           ptable |-> [ptable EXCEPT
                                          ![l] = Replace(@, package_entry,
                                                         add_module_exports_set(
                                                             package_entry, call[2],
                                                             to_entry(call[4])))]]
          [] call[1] = "add_reads_module" ->
                 IF add_reads_module_error(call[2], call[3]) # NoError THEN same
                 ELSE LET l == Entry(call[2]).loader
                      IN  [ret |-> Returned,
                           mtable |-> [mtable EXCEPT
                                          ![l] = Replace(@, Entry(call[2]),
                                                         add_reads_module_add(call[2],
                                                                              call[3]))],
                           ptable |-> ptable]
          [] call[1] = "can_read_module" ->
                 IF can_read_module_error(call[2], call[3]) # NoError THEN same
                 ELSE [same EXCEPT !.ret = jboolean(can_read_module_result(call[2], call[3]))]
          [] call[1] = "is_exported_to_module" ->
                 IF is_exported_to_module_error(call[2], call[3], call[4]) # NoError THEN same
                 ELSE [same EXCEPT !.ret = jboolean(is_exported_to_module_result(
                                                        call[2], call[3], call[4]))]

\* Thread t takes the step at which its call comes to its result.
Decides(t) == thread[t].ret = NoRet /\ thread'[t].ret # NoRet

\* C18: every call has one step, between its first and its last, at which
\* it comes to its result; that result and the tables after the step are
\* those of the call run alone, as one sequential step, from the state
\* before the step, and no other step changes a table. The concurrent
\* calls are thus the sequential calls in the order of these steps.
C18_Linearisable ==
    [][\A t \in Movers :
          IF Decides(t)
          THEN LET seq == Sequential(thread[t].call)
               IN  /\ thread'[t].ret = seq.ret
                   /\ mtable' = seq.mtable
                   /\ ptable' = seq.ptable
          ELSE registry' = registry]_vars

\* The calls of the two threads overlap, one has come to its result and
\* changed a table, the other has passed its first checks.
C18_Witness ==
    \E t, u \in Threads :
        /\ At(t, "add_module_package", "return") /\ thread[t].ret = Returned
        /\ At(u, "define_module", "return") /\ thread[u].ret = Thrown
        /\ thread[u].call[4] # Array(<<>>)

---------------------------------------------------------------------------
(* Tracing.                                                                *)

\* A call whose checks pass and whose trace line, with the flag on, reads
\* the name of the NULL entry of the unnamed module.
TraceFaults(a) ==
    \/ /\ add_module_exports_arguments(a[1], a[2], a[3]) = NoError
       /\ add_module_exports_trace_faults(TRUE, to_entry(a[3]))
    \/ /\ is_exported_to_module_error(a[1], a[2], a[3]) = NoError
       /\ is_exported_to_module_trace_faults(TRUE, to_entry(a[3]))

\* C19: a call of add_module_exports or is_exported_to_module ends as it
\* does with tracing off, whatever TraceModules and TracePackages are: it
\* throws or returns and the VM runs on, and no call has a trace line that
\* faults with the flag on.
C19_TracingIsSideEffect ==
    /\ [][\A a \in ExportInputs :
             add_module_exports(a[1], a[2], a[3]) \/ is_exported_to_module(a[1], a[2], a[3])
                 => crashed' = crashed]_vars
    /\ [](\A a \in ExportInputs : ~TraceFaults(a))

---------------------------------------------------------------------------
(* Delegating loaders.                                                     *)

\* define_module for L1 and for its delegating loader, with and without a
\* package.
DelegatingDefineInputs ==
    {M1, M2} \X {L1, DelegatingLoader} \X {Array(<<>>), Array(<<P>>)}

NextDelegating ==
    \/ \E d \in DelegatingDefineInputs : define_module(d[1], d[2], d[3])
    \/ \E a \in Defined \X {P, Q} : add_module_package(a[1], a[2])
    \/ \E a \in Defined \X {P} \X (Defined \cup {NullModule}) :
          add_module_exports(a[1], a[2], a[3])
    \/ \E a \in Defined \X {P} \X (Defined \cup {NullModule}) :
          is_exported_to_module(a[1], a[2], a[3])

SpecDelegating == Init /\ [][NextDelegating]_vars

\* C20: a module that define_module made for a loader is attributed to the
\* loader's non-reflection loader l: its entry is in the module table of l,
\* the loader field of the entry is l, its packages are in the package
\* table of l, and get_package_entry, which goes through the loader field,
\* finds each package of the module.
C20_AttributedToRealLoader ==
    \A module_entry \in AllModuleEntries :
        LET l == non_reflection_class_loader(Module_loader(module_entry.module))
        IN  /\ BagIn(module_entry, mtable[l])
            /\ module_entry.loader = l
            /\ \A package_entry \in AllPackageEntries :
                  package_entry.module = module_entry.module =>
                      /\ BagIn(package_entry, ptable[l])
                      /\ get_package_entry(module_entry.module, package_entry.name)
                             = package_entry

---------------------------------------------------------------------------
(* The value of is_exported_to_module.                                     *)

\* What the return statement of is_exported_to_module gives for a call that
\* gets to it: the expression over the fields of the package entry, which
\* is true exactly for a package ingested as exported to everyone, for the
\* module itself, and for a named module the package was exported to; for
\* the unnamed module it is the unqualified flag, whether or not the package
\* was exported to the unnamed module.
C21_ReturnValue ==
    \A a \in ExportInputs :
        is_exported_to_module_error(a[1], a[2], a[3]) = NoError =>
            LET package_entry == get_package_entry(get_module_entry(a[1]), a[2])
                l == Entry(a[1]).loader
                value == is_exported_to_module_result(a[1], a[2], a[3])
            IN  /\ value <=> \/ package_entry.unqual
                             \/ a[1] = a[3]
                             \/ a[3] # NullModule /\ a[3] \in package_entry.exports
                /\ value <=> \/ <<l, a[2]>> \in ingested
                             \/ a[1] = a[3]
                             \/ a[3] # NullModule /\ <<a[1], a[2], a[3]>> \in granted_exports
                /\ a[3] = NullModule => (value <=> package_entry.unqual)

\* C21: a call of is_exported_to_module that passes its checks returns, and
\* returns P.unqualified OR from_M == to_M OR (to is non-null AND to_M is in
\* P.exports); for the unnamed module it returns the unqualified flag, so
\* that an export to the unnamed module alone does not make it return true.
C21_ReturnsExportExpression ==
    /\ []C21_ReturnValue
    /\ [][\A a \in ExportInputs :
             /\ is_exported_to_module_error(a[1], a[2], a[3]) = NoError
             /\ is_exported_to_module(a[1], a[2], a[3])
             => crashed' = Running]_vars

---------------------------------------------------------------------------
(* Threads that define modules.                                            *)

\* define_module calls for one loader: module M2 with three package lists
\* and module M1 with a package of M2.
DefineRaceInputs ==
    {<<M2, L1, Array(<<P>>)>>, <<M2, L1, Array(<<Q>>)>>, <<M2, L1, Array(<<>>)>>,
     <<M1, L1, Array(<<P>>)>>}

NextDefine ==
    \E t \in Threads :
        \/ \E d \in DefineRaceInputs : define_module_call(t, d[1], d[2], d[3])
        \/ define_module_get_module_entry_table(t)
        \/ define_module_MutexLocker(t)
        \/ define_module_get_package_entry_table(t)
        \/ define_module_lookup_only(t)
        \/ define_module_locked_create_entry_or_null(t)
        \/ return(t)

SpecDefine == Init /\ [][NextDefine]_vars

\* The names of the packages of a module in a package table.
PackagesOf(table, module) ==
    { package_entry.name : package_entry \in
          { e \in BagToSet(table) : e.module = module } }

\* The entries of a name in a module table, by their number.
EntriesOf(table, name) ==
    SumOver([e \in BagToSet(table) |-> IF e.name = name THEN CopiesIn(e, table) ELSE 0],
            BagToSet(table))

\* The step at which a define_module call of thread t comes to its result:
\* it throws only when the tables hold the module name or a package of its
\* list, and then leaves the tables as they are; it returns only when the
\* module name is new, and then the tables hold one entry of that name and
\* the packages of its list for the module.
C22_Decision(t) ==
    LET call == thread[t].call
        table == non_reflection_class_loader(call[3])
        list == Range(define_module_symbols(call[4]))
        jlrM == Module_create(call[3], call[2])
    IN  IF thread'[t].ret = Thrown
        THEN /\ registry' = registry
             /\ \/ module_lookup_only(mtable[table], call[2]) # NullModule
                \/ \E x \in list :
                      package_lookup_only(ptable[table], x) # NullPackageEntry
        ELSE /\ module_lookup_only(mtable[table], call[2]) = NullModule
             /\ EntriesOf(mtable'[table], call[2]) = 1
             /\ PackagesOf(ptable'[table], jlrM) = list

\* Two threads are in define_module calls for one name and one loader: not
\* both have returned a module, and when one has returned and the other has
\* thrown the tables hold one entry of the name, with the packages of the
\* call that returned and no other.
C22_OneWinner ==
    \A t, u \in Threads :
        /\ t # u
        /\ thread[t].pc # "idle" /\ thread[u].pc # "idle"
        /\ thread[t].call[2] = thread[u].call[2]
        /\ thread[t].call[3] = thread[u].call[3]
        => /\ ~(thread[t].ret = Returned /\ thread[u].ret = Returned)
           /\ thread[t].ret = Returned /\ thread[u].ret = Thrown =>
                 LET call == thread[t].call
                     table == non_reflection_class_loader(call[3])
                 IN  /\ EntriesOf(mtable[table], call[2]) = 1
                     /\ PackagesOf(ptable[table], Module_create(call[3], call[2]))
                            = Range(define_module_symbols(call[4]))

---------------------------------------------------------------------------
(* Loaders.                                                                *)

\* The tables of the loaders other than l are left as they are.
OthersKept(l) ==
    \A l2 \in ClassLoaders \ {l} : mtable'[l2] = mtable[l2] /\ ptable'[l2] = ptable[l2]

\* Whether a define_module call with well-formed arguments throws is a
\* matter of the two tables of its loader: it throws exactly when the
\* module table holds its name or the package table one of its packages.
C23_DefineByOwnTables ==
    \A d \in DefineInputs :
        define_module_arguments(d[1][1], d[1][2], d[2]) = NoError =>
            LET l == non_reflection_class_loader(d[1][2])
            IN  define_module_error(d[1][1], d[1][2], d[2]) # NoError
                    <=> \/ module_lookup_only(mtable[l], d[1][1]) # NullModule
                        \/ \E x \in Range(define_module_symbols(d[2])) :
                              package_lookup_only(ptable[l], x) # NullPackageEntry

\* Whether an add_module_package call for a defined module and a legal
\* name throws is a matter of the package table of the module's loader.
C23_AddPackageByOwnTable ==
    \A a \in PackageCallInputs :
        add_module_package_arguments(a[1], a[2]) = NoError =>
            (add_module_package_error(a[1], a[2]) # NoError
                <=> package_lookup_only(ptable[Module_loader(a[1])], a[2])
                        # NullPackageEntry)

C23_Frame ==
    /\ \A d \in DefineInputs :
          define_module(d[1][1], d[1][2], d[2]) /\ d[1][2] \in ClassLoaders
              => OthersKept(non_reflection_class_loader(d[1][2]))
    /\ \A a \in PackageCallInputs :
          add_module_package(a[1], a[2]) /\ a[1] \in Defined
              => OthersKept(Module_loader(a[1]))

\* C23: define_module and add_module_package for a loader throw or return
\* by the names in the tables of that loader alone, whatever module and
\* package names the other loaders hold, and leave the module tables and
\* package tables of the other loaders, with the reads and exports of their
\* entries, as they are.
C23_LoadersIndependent ==
    /\ [](C23_DefineByOwnTables /\ C23_AddPackageByOwnTable)
    /\ [][registry' # registry => C23_Frame]_vars

\* The two loaders hold modules of one name with packages of one name, and
\* the same define_module call returns for neither loader again while
\* define_module for a name of one loader returns for the other.
C23_Witness ==
    /\ \E e1 \in BagToSet(ptable[L1]), e2 \in BagToSet(ptable[NullLoader]) :
          e1.name = e2.name /\ e1.module[2] = e2.module[2]
    /\ \E name \in {M1, M2} :
          /\ module_lookup_only(mtable[L1], name) # NullModule
          /\ module_lookup_only(mtable[NullLoader], name) = NullModule
          /\ define_module_error(name, NullLoader, Array(<<>>)) = NoError

---------------------------------------------------------------------------
(* Fair threads.                                                           *)

\* The calls of the fair threads: define_module for the boot loader, for
\* two modules of L1 and for java.base, and one call of each other function.
FairDefineInputs ==
    {<<M1, L1, Array(<<>>)>>, <<M2, L1, Array(<<P>>)>>,
     <<M1, NullLoader, Array(<<>>)>>, <<java_base, L1, Array(<<>>)>>}
FairPackageInputs == Handles({<<m1, P>>})
FairExportInputs == Handles({<<m2, P, m1>>})
FairReadInputs == Handles({<<m1, m2>>})

NextFair ==
    \E t \in Threads :
        \/ \E d \in FairDefineInputs : define_module_call(t, d[1], d[2], d[3])
        \/ define_module_throw(t)
        \/ define_module_get_module_entry_table(t)
        \/ define_module_MutexLocker(t)
        \/ define_module_get_package_entry_table(t)
        \/ define_module_lookup_only(t)
        \/ define_module_locked_create_entry_or_null(t)
        \/ add_to_boot_loader_list_stat(t)
        \/ add_to_boot_loader_list_ObjectLocker(t)
        \/ add_to_boot_loader_list_add_to_list(t)
        \/ \E a \in FairPackageInputs : add_module_package_call(t, a[1], a[2])
        \/ add_module_package_get_module_entry(t)
        \/ add_module_package_MutexLocker(t)
        \/ add_module_package_lookup_only(t)
        \/ add_module_package_locked_create_entry_or_null(t)
        \/ \E a \in FairExportInputs : add_module_exports_call(t, a[1], a[2], a[3])
        \/ add_module_exports_get_module_entry_from(t)
        \/ add_module_exports_get_module_entry_to(t)
        \/ add_module_exports_get_package_entry(t)
        \/ add_module_exports_is_unqual_exported(t)
        \/ add_module_exports_set_exported(t)
        \/ add_module_exports_set_exported_locked(t)
        \/ \E a \in FairReadInputs : add_reads_module_call(t, a[1], a[2])
        \/ add_reads_module_get_module_entry_from(t)
        \/ add_reads_module_get_module_entry_to(t)
        \/ add_reads_module_add_read(t)
        \/ add_reads_module_add_read_locked(t)
        \/ \E a \in FairReadInputs : can_read_module_call(t, a[1], a[2])
        \/ can_read_module_get_module_entry_asking(t)
        \/ can_read_module_get_module_entry_target(t)
        \/ can_read_module_can_read(t)
        \/ \E a \in FairExportInputs : is_exported_to_module_call(t, a[1], a[2], a[3])
        \/ is_exported_to_module_get_module_entry_from(t)
        \/ is_exported_to_module_get_module_entry_to(t)
        \/ is_exported_to_module_get_package_entry(t)
        \/ is_exported_to_module_return(t)
        \/ return(t)

\* A step of thread t inside a call.
Progress(t) ==
    /\ thread[t].pc # "idle"
    /\ NextFair
    /\ thread'[t] # thread[t]

\* A thread inside a call is scheduled again and again, and a thread that
\* waits for Module_lock or the system loader's lock gets it when it is free
\* again and again.  When a thread makes its next call is up to the caller.
SpecThreadsFair ==
    Init /\ [][NextFair]_vars /\ \A t \in Threads : SF_vars(Progress(t))

\* A thread that is in no call, or at the return of one, holds no lock.
C24_ReturnsWithoutLock ==
    \A t \in Threads :
        thread[t].pc \in {"idle", "return"} =>
            Module_lock # t /\ system_loader_lock # t

====
